---- MODULE Spec2Model ----
(***************************************************************************)
(* Model of src/watch.rs: the live-reload watcher of shade_runner.         *)
(*                                                                         *)
(* Three processes share the state:                                        *)
(*   - the constructing/caller thread: create_watch step by step, then     *)
(*     receiving results, replacing the receiver, dropping the Watch;      *)
(*   - the background thread spawned by create_watch ('watch_loop);        *)
(*   - the environment: the filesystem and the notify monitor that turns   *)
(*     filesystem operations into debounced events on notify_tx.           *)
(***************************************************************************)
EXTENDS Integers, Sequences, FiniteSets, TLC

\* Bound on the number of filesystem operations the environment performs.
MaxOps == 2

VARIABLES
    src_path,    \* SrcPath: [kind, vdir, fdir] (parent directories of the paths)
    content,     \* filesystem: state of each watched source file
    cpc,         \* position of the constructing thread inside create_watch
    watcher,     \* RecommendedWatcher: "none" | "alive" | "dropped"
    watches,     \* directories subscribed on the watcher, one per watch() call
    notify_q,    \* events in flight on (notify_tx, notify_rx)
    thread_q,    \* number of () in flight on (thread_tx, thread_rx)
    rx_q,        \* results in flight on the loader's (tx, rx)
    rx,          \* Receiver of the result channel: "none" | "alive" | "dropped"
    recvd,       \* origins of the results the caller has taken from rx, in order
    tpc,         \* position of the background thread
    last_wait,   \* what the last recv_timeout of the thread returned
    dpc,         \* position of Handler::drop / the drop of Watch
    nops,        \* filesystem operations performed so far
    consumed,    \* ids of the Create/Write events the thread has taken
    log,         \* one entry per reload() call, in call order
    mark         \* number of reload() calls when the shutdown signal was sent

vars == <<src_path, content, cpc, watcher, watches, notify_q, thread_q, rx_q,
          rx, recvd, tpc, last_wait, dpc, nops, consumed, log, mark>>

----------------------------------------------------------------------------
(* Data *)

\* The three shapes of watch target: a pair sharing a parent, a pair with
\* different parents, a single compute source.
SrcPaths ==
    { [kind |-> "Graphics", vdir |-> "d1", fdir |-> "d1"],
      [kind |-> "Graphics", vdir |-> "d1", fdir |-> "d2"],
      [kind |-> "Compute",  vdir |-> "d1", fdir |-> "d1"] }

\* The source file the environment edits, deletes and recreates; the vertex
\* file of a pair stays as it is and its directory sees unrelated activity.
Edited(sp) == IF sp.kind = "Graphics" THEN "fragment" ELSE "compute"

\* Parent directory of a watched file (PathBuf::pop).
DirOf(sp, f) == IF f = "fragment" THEN sp.fdir ELSE sp.vdir

\* State of a source file: absent, not compiling, compiling but without a
\* reflectable entry point, or valid.
Contents == {"missing", "bad", "noentry", "ok"}

EventKinds == {"Create", "Write", "Remove", "Rename", "Chmod", "Error"}

NoShaders == [vertex |-> "none", fragment |-> "none", compute |-> "none"]

Ok(shaders, entry) ==
    [ok |-> TRUE, shaders |-> shaders, entry |-> entry, err |-> "none"]

Err(e) == [ok |-> FALSE, shaders |-> NoShaders, entry |-> "none", err |-> e]

----------------------------------------------------------------------------
(* External compile / reflect steps (crate::load, crate::parse, ...) *)

load(c) ==
    IF c.vertex = "missing" \/ c.fragment = "missing" THEN Err("FileRead")
    ELSE IF c.vertex = "bad" \/ c.fragment = "bad" THEN Err("Compile")
    ELSE Ok([vertex |-> c.vertex, fragment |-> c.fragment, compute |-> "none"], "none")

load_compute(c) ==
    IF c.compute = "missing" THEN Err("FileRead")
    ELSE IF c.compute = "bad" THEN Err("Compile")
    ELSE Ok([vertex |-> "none", fragment |-> "none", compute |-> c.compute], "none")

parse(shaders) ==
    IF shaders.vertex = "noentry" \/ shaders.fragment = "noentry"
    THEN Err("Parse")
    ELSE Ok(NoShaders, "entry_graphics")

parse_compute(shaders) ==
    IF shaders.compute = "noentry" THEN Err("Parse")
    ELSE Ok(NoShaders, "entry_compute")

----------------------------------------------------------------------------
(* Reload strategies *)

\* Variant of GraphicsLoader::reload that forwards the artifact although the
\* parse step failed.
GraphicsLoader_reload_partial(c) ==
    LET l == load(c) IN
    IF l.ok
    THEN LET entry == parse(l.shaders) IN
         [parseCalled |-> TRUE, result |-> Ok(l.shaders, entry.entry)]
    ELSE [parseCalled |-> FALSE, result |-> Err(l.err)]

\* GraphicsLoader::reload: the value handed to tx.send, and whether the
\* parse step ran.
GraphicsLoader_reload(c) ==
    LET l == load(c) IN
    IF l.ok
    THEN LET entry == parse(l.shaders) IN
         [parseCalled |-> TRUE,
          result |-> IF entry.ok THEN Ok(l.shaders, entry.entry) ELSE Err(entry.err)]
    ELSE [parseCalled |-> FALSE, result |-> Err(l.err)]

\* ComputeLoader::reload.
ComputeLoader_reload(c) ==
    LET l == load_compute(c) IN
    IF l.ok
    THEN LET entry == parse_compute(l.shaders) IN
         [parseCalled |-> TRUE,
          result |-> IF entry.ok THEN Ok(l.shaders, entry.entry) ELSE Err(entry.err)]
    ELSE [parseCalled |-> FALSE, result |-> Err(l.err)]

\* Loader::reload: dispatch on the variant.
Loader_reload(sp, c) ==
    IF sp.kind = "Graphics" THEN GraphicsLoader_reload(c) ELSE ComputeLoader_reload(c)

\* Variant of the send that puts the newest result in front of the others.
tx_send_front(q, r, m) == IF r = "alive" THEN <<m>> \o q ELSE q

\* Variant of the send on a channel that holds one result and drops the rest.
tx_send_bounded(q, r, m) == IF r = "alive" /\ Len(q) < 1 THEN Append(q, m) ELSE q

\* self.tx.send(msg).ok(): appended to the channel while the receiver
\* exists, otherwise the send fails and the failure is discarded.
tx_send(q, r, m) == IF r = "alive" THEN Append(q, m) ELSE q

\* One call of reload() on behalf of `origin` (0: the initial reload, n > 0:
\* the event with id n), triggered by `trigger`, while the receiver is in
\* state r.
Reload(origin, trigger, r) ==
    LET out == Loader_reload(src_path, content) IN
    /\ rx_q' = tx_send(rx_q, r, [origin |-> origin, result |-> out.result])
    /\ log' = Append(log, [origin      |-> origin,
                           trigger     |-> trigger,
                           parseCalled |-> out.parseCalled,
                           result      |-> out.result,
                           delivered   |-> (r = "alive")])

----------------------------------------------------------------------------
(* Initial state: create / create_compute has been called *)

InitContent(sp) ==
    IF sp.kind = "Graphics"
    THEN { [vertex |-> "ok", fragment |-> f, compute |-> "none"] : f \in Contents }
    ELSE { [vertex |-> "none", fragment |-> "none", compute |-> c] : c \in Contents }

NoEvent == [id |-> 0, kind |-> "None", path |-> "none"]

Init ==
    /\ src_path \in SrcPaths
    /\ content \in InitContent(src_path)
    /\ cpc = "new"
    /\ watcher = "none"
    /\ watches = <<>>
    /\ notify_q = <<>>
    /\ thread_q = 0
    /\ rx_q = <<>>
    /\ rx = "none"
    /\ recvd = <<>>
    /\ tpc = "none"
    /\ last_wait = NoEvent
    /\ dpc = "alive"
    /\ nops = 0
    /\ consumed = <<>>
    /\ log = <<>>
    /\ mark = 0

----------------------------------------------------------------------------
(* create_watch, on the constructing thread *)

\* Positions of create_watch at which it has returned Err(Error::FileWatch).
Failed == {"failed_new", "failed_watch1", "failed_watch2"}

\* Variant of the early return that keeps the watcher and its subscriptions.
FailFileWatch_leak(at) ==
    /\ cpc' = at
    /\ UNCHANGED <<watcher, watches, notify_q>>

\* The `?` on a failed monitor call: create_watch returns Err(FileWatch) from
\* position `at` and its locals (the watcher with its subscriptions, both
\* channels) are dropped.
FailFileWatch(at) ==
    /\ cpc' = at
    /\ watcher' = IF watcher = "alive" THEN "dropped" ELSE watcher
    /\ watches' = <<>>
    /\ notify_q' = <<>>

\* Variant of create_watch that builds the loader, with its initial reload,
\* right after the watcher and before any directory is watched.
WatcherNew_reload_first ==
    /\ cpc = "new"
    /\ \/ /\ watcher' = "alive"
          /\ cpc' = "loader"
          /\ UNCHANGED <<watches, notify_q>>
       \/ FailFileWatch("failed_new")
    /\ UNCHANGED <<src_path, content, thread_q, rx_q, rx, recvd, tpc, last_wait,
                   dpc, nops, consumed, log, mark>>

\* Watcher::new(notify_tx, frequency).map_err(Error::FileWatch)?
WatcherNew ==
    /\ cpc = "new"
    /\ \/ /\ watcher' = "alive"
          /\ cpc' = "watch1"
          /\ UNCHANGED <<watches, notify_q>>
       \/ FailFileWatch("failed_new")
    /\ UNCHANGED <<src_path, content, thread_q, rx_q, rx, recvd, tpc, last_wait,
                   dpc, nops, consumed, log, mark>>

\* Variant of the first watch that goes on to watch the fragment's parent
\* without comparing the two parents.
WatchFirst_no_dedup ==
    /\ cpc = "watch1"
    /\ \/ /\ watches' = Append(watches, src_path.vdir)
          /\ cpc' = IF src_path.kind = "Graphics" THEN "watch2" ELSE "loader"
          /\ UNCHANGED <<watcher, notify_q>>
       \/ FailFileWatch("failed_watch1")
    /\ UNCHANGED <<src_path, content, thread_q, rx_q, rx, recvd, tpc, last_wait,
                   dpc, nops, consumed, log, mark>>

\* watcher.watch(&vp, ..)? / watcher.watch(&cp, ..)?
WatchFirst ==
    /\ cpc = "watch1"
    /\ \/ /\ watches' = Append(watches, src_path.vdir)
          /\ cpc' = IF src_path.kind = "Graphics" /\ src_path.vdir # src_path.fdir
                    THEN "watch2" ELSE "loader"
          /\ UNCHANGED <<watcher, notify_q>>
       \/ FailFileWatch("failed_watch1")
    /\ UNCHANGED <<src_path, content, thread_q, rx_q, rx, recvd, tpc, last_wait,
                   dpc, nops, consumed, log, mark>>

\* if vp != fp { watcher.watch(&fp, ..)? }
WatchSecond ==
    /\ cpc = "watch2"
    /\ \/ /\ watches' = Append(watches, src_path.fdir)
          /\ cpc' = "loader"
          /\ UNCHANGED <<watcher, notify_q>>
       \/ FailFileWatch("failed_watch2")
    /\ UNCHANGED <<src_path, content, thread_q, rx_q, rx, recvd, tpc, last_wait,
                   dpc, nops, consumed, log, mark>>

\* Variant of Loader::create that makes the channel and skips the initial
\* reload.
LoaderCreate_no_reload ==
    /\ cpc = "loader"
    /\ rx' = "alive"
    /\ cpc' = "spawn"
    /\ UNCHANGED <<src_path, content, watcher, watches, notify_q, thread_q, rx_q,
                   recvd, tpc, last_wait, dpc, nops, consumed, log, mark>>

\* Variant of Loader::create that hands the error of a failed initial reload
\* to create_watch, which returns it instead of building the session.
LoaderCreate_propagate ==
    /\ cpc = "loader"
    /\ rx' = "alive"
    /\ Reload(0, "Initial", "alive")
    /\ cpc' = IF Loader_reload(src_path, content).result.ok THEN "spawn" ELSE "failed_load"
    /\ UNCHANGED <<src_path, content, watcher, watches, notify_q, thread_q, recvd,
                   tpc, last_wait, dpc, nops, consumed, mark>>

\* GraphicsLoader::create / ComputeLoader::create: the result channel is
\* made and the initial reload runs on the constructing thread.
LoaderCreate ==
    /\ cpc = "loader"
    /\ rx' = "alive"
    /\ Reload(0, "Initial", "alive")
    /\ cpc' = "spawn"
    /\ UNCHANGED <<src_path, content, watcher, watches, notify_q, thread_q, recvd,
                   tpc, last_wait, dpc, nops, consumed, mark>>

\* Variant of create_watch that makes the event channel only when it spawns
\* the thread: what the monitor reported before is gone.
Spawn_fresh_channel ==
    /\ cpc = "spawn"
    /\ tpc' = "check"
    /\ cpc' = "ready"
    /\ notify_q' = <<>>
    /\ UNCHANGED <<src_path, content, watcher, watches, thread_q, rx_q,
                   rx, recvd, last_wait, dpc, nops, consumed, log, mark>>

\* thread::spawn(..), Handler { .. }, Ok((handler, rx)).
Spawn ==
    /\ cpc = "spawn"
    /\ tpc' = "check"
    /\ cpc' = "ready"
    /\ UNCHANGED <<src_path, content, watcher, watches, notify_q, thread_q, rx_q,
                   rx, recvd, last_wait, dpc, nops, consumed, log, mark>>

----------------------------------------------------------------------------
(* Environment: filesystem operations and the notify monitor *)

\* The set of directories with a subscription on the watcher.
Watched == {watches[i] : i \in 1..Len(watches)}

\* The monitor puts an event on notify_tx when the operation touches a
\* directory subscribed on a live watcher.
Deliver(dir, kind, path) ==
    IF watcher = "alive" /\ dir \in Watched
    THEN Append(notify_q, [id |-> nops + 1, kind |-> kind, path |-> path])
    ELSE notify_q

EnvFrame ==
    UNCHANGED <<src_path, cpc, watcher, watches, thread_q, rx_q, rx, recvd, tpc,
                last_wait, dpc, consumed, log, mark>>

\* A watched source file is created or overwritten with new text.
FsWrite ==
    /\ watcher = "alive"
    /\ nops < MaxOps
    /\ \E f \in {Edited(src_path)}, c \in Contents \ {"missing"} :
         /\ content' = [content EXCEPT ![f] = c]
         /\ notify_q' = Deliver(DirOf(src_path, f),
                                IF content[f] = "missing" THEN "Create" ELSE "Write", f)
    /\ nops' = nops + 1
    /\ EnvFrame

\* A watched source file is deleted or renamed away.
FsRemove ==
    /\ watcher = "alive"
    /\ nops < MaxOps
    /\ \E f \in {Edited(src_path)}, k \in {"Remove", "Rename"} :
         /\ content[f] # "missing"
         /\ content' = [content EXCEPT ![f] = "missing"]
         /\ notify_q' = Deliver(DirOf(src_path, f), k, f)
    /\ nops' = nops + 1
    /\ EnvFrame

\* Activity that leaves the sources as they are: a permission change on a
\* watched file, a write to an unrelated file of a watched directory, an
\* error reported by the monitor.
FsOther ==
    /\ watcher = "alive"
    /\ nops < MaxOps
    /\ \E e \in { <<"Chmod", "watched">>, <<"Write", "other">>, <<"Error", "none">> } :
         notify_q' = Deliver(src_path.vdir, e[1], e[2])
    /\ nops' = nops + 1
    /\ UNCHANGED content
    /\ EnvFrame

----------------------------------------------------------------------------
(* The background thread: 'watch_loop *)

\* Variant of the loop-top check that never sees the signal.
try_recv_never(n) == FALSE

\* thread_rx.try_recv().is_ok()
try_recv_is_ok(n) == n > 0

\* notify_rx.recv_timeout(Duration::from_secs(1)): the oldest queued event,
\* or an error after one second (Timeout, or Disconnected once the watcher
\* holding notify_tx is gone).
recv_timeout(q, w) ==
    IF Len(q) > 0 THEN Head(q)
    ELSE [id |-> 0, kind |-> IF w = "alive" THEN "Timeout" ELSE "Disconnected",
          path |-> "none"]

\* Variant of the pattern that matches every event the wait yields.
Triggers_any_event(kind) == kind \in EventKinds

\* Variant of the pattern that leaves out Create.
Triggers_write_only(kind) == kind = "Write"

\* if let Ok(Create(_)) | Ok(Write(_)) = ..
Triggers(kind) == kind \in {"Create", "Write"}

\* Variant of the loop that leaves when a reload has produced an error.
AfterReload_break_on_err(result) == IF result.ok THEN "check" ELSE "exited"

\* Variant of the loop that waits for the next event right after a reload,
\* checking the shutdown signal only once the event stream has gone quiet.
AfterReload_wait(result) == "wait"

\* Where the loop goes after loader.reload() has returned.
AfterReload(result) == "check"

ThreadFrame ==
    UNCHANGED <<src_path, content, cpc, watcher, watches, rx, recvd, dpc, nops, mark>>

\* if thread_rx.try_recv().is_ok() { break 'watch_loop; }
ThreadCheck ==
    /\ tpc = "check"
    /\ IF try_recv_is_ok(thread_q)
       THEN /\ thread_q' = thread_q - 1
            /\ tpc' = "exited"
       ELSE /\ tpc' = "wait"
            /\ UNCHANGED thread_q
    /\ UNCHANGED <<notify_q, rx_q, last_wait, consumed, log>>
    /\ ThreadFrame

\* Variant of the loop that leaves when the event wait returns an error
\* (its timeout, or a disconnected stream).
ThreadWait_break_on_timeout ==
    /\ tpc = "wait"
    /\ LET ev == recv_timeout(notify_q, watcher) IN
       /\ last_wait' = ev
       /\ notify_q' = IF Len(notify_q) > 0 THEN Tail(notify_q) ELSE notify_q
       /\ consumed' = IF ev.kind \in {"Create", "Write"}
                      THEN Append(consumed, ev.id) ELSE consumed
       /\ tpc' = IF Triggers(ev.kind) THEN "reload"
                 ELSE IF ev.kind \in {"Timeout", "Disconnected"} THEN "exited"
                 ELSE "check"
    /\ UNCHANGED <<thread_q, rx_q, log>>
    /\ ThreadFrame

\* Variant of the match that also looks at the path of the event and reloads
\* only for the watched source files.
ThreadWait_path_filter ==
    /\ tpc = "wait"
    /\ LET ev == recv_timeout(notify_q, watcher) IN
       /\ last_wait' = ev
       /\ notify_q' = IF Len(notify_q) > 0 THEN Tail(notify_q) ELSE notify_q
       /\ consumed' = IF ev.kind \in {"Create", "Write"}
                      THEN Append(consumed, ev.id) ELSE consumed
       /\ tpc' = IF Triggers(ev.kind) /\ ev.path # "other" THEN "reload" ELSE "check"
    /\ UNCHANGED <<thread_q, rx_q, log>>
    /\ ThreadFrame

\* The event wait returns and the pattern is matched.
ThreadWait ==
    /\ tpc = "wait"
    /\ LET ev == recv_timeout(notify_q, watcher) IN
       /\ last_wait' = ev
       /\ notify_q' = IF Len(notify_q) > 0 THEN Tail(notify_q) ELSE notify_q
       /\ consumed' = IF ev.kind \in {"Create", "Write"}
                      THEN Append(consumed, ev.id) ELSE consumed
       /\ tpc' = IF Triggers(ev.kind) THEN "reload" ELSE "check"
    /\ UNCHANGED <<thread_q, rx_q, log>>
    /\ ThreadFrame

\* Variant of the reload whose send unwraps its result: with the receiver
\* gone the thread panics and leaves the loop.
ThreadReload_unwrap ==
    /\ tpc = "reload"
    /\ Reload(last_wait.id, last_wait.kind, rx)
    /\ tpc' = IF rx = "alive" THEN "check" ELSE "exited"
    /\ UNCHANGED <<notify_q, thread_q, last_wait, consumed>>
    /\ ThreadFrame

\* loader.reload();
ThreadReload ==
    /\ tpc = "reload"
    /\ Reload(last_wait.id, last_wait.kind, rx)
    /\ tpc' = AfterReload(Loader_reload(src_path, content).result)
    /\ UNCHANGED <<notify_q, thread_q, last_wait, consumed>>
    /\ ThreadFrame

\* The external compile or reflect step panics inside loader.reload(): the
\* thread unwinds and ends without having sent a result.
ThreadPanic ==
    /\ tpc = "reload"
    /\ tpc' = "panicked"
    /\ UNCHANGED <<notify_q, thread_q, rx_q, last_wait, consumed, log>>
    /\ ThreadFrame

----------------------------------------------------------------------------
(* The caller, once create / create_compute has returned Ok(Watch) *)

CallerFrame ==
    UNCHANGED <<src_path, content, cpc, notify_q, tpc, last_wait, nops, consumed, log>>

\* watch.rx.try_recv() / recv() yields a result.
Recv ==
    /\ cpc = "ready" /\ dpc = "alive" /\ rx = "alive"
    /\ Len(rx_q) > 0
    /\ recvd' = Append(recvd, Head(rx_q).origin)
    /\ rx_q' = Tail(rx_q)
    /\ UNCHANGED <<watcher, watches, thread_q, rx, dpc, mark>>
    /\ CallerFrame

\* The caller moves another receiver into the public field rx: the receiver
\* of the result channel is dropped while the handler lives on.
ReplaceRx ==
    /\ cpc = "ready" /\ dpc = "alive" /\ rx = "alive"
    /\ rx' = "dropped"
    /\ rx_q' = <<>>
    /\ UNCHANGED <<watcher, watches, thread_q, recvd, dpc, mark>>
    /\ CallerFrame

\* Handler::drop, first statement: self.thread_tx.send(()).ok(); the send
\* fails, and is ignored, when the thread is gone and thread_rx with it.
DropSend ==
    /\ cpc = "ready" /\ dpc = "alive"
    /\ thread_q' = IF tpc \in {"exited", "panicked"} THEN thread_q ELSE thread_q + 1
    /\ dpc' = "joining"
    /\ mark' = Len(log)
    /\ UNCHANGED <<watcher, watches, rx_q, rx, recvd>>
    /\ CallerFrame

\* Variant of drop that does not wait for the thread: the handle is let go
\* without a join.
DropJoin_detach ==
    /\ dpc = "joining"
    /\ dpc' = "joined"
    /\ UNCHANGED <<watcher, watches, thread_q, rx_q, rx, recvd, mark>>
    /\ CallerFrame

\* Variant of drop that unwraps the result of the join: the panic of the
\* thread is raised again inside drop.
DropJoin_unwrap ==
    /\ dpc = "joining"
    /\ tpc \in {"exited", "panicked"}
    /\ dpc' = IF tpc = "panicked" THEN "drop_panicked" ELSE "joined"
    /\ UNCHANGED <<watcher, watches, thread_q, rx_q, rx, recvd, mark>>
    /\ CallerFrame

\* Handler::drop, second statement: h.join().ok() returns once the thread
\* has left its closure, by the break or by a panic (the Err is ignored).
DropJoin ==
    /\ dpc = "joining"
    /\ tpc \in {"exited", "panicked"}
    /\ dpc' = "joined"
    /\ UNCHANGED <<watcher, watches, thread_q, rx_q, rx, recvd, mark>>
    /\ CallerFrame

\* After Handler::drop: the fields of Handler (thread_tx, handle, _watcher)
\* and then Watch.rx are dropped.
DropFields ==
    /\ dpc = "joined"
    /\ dpc' = "dropped"
    /\ watcher' = "dropped"
    /\ watches' = <<>>
    /\ rx' = "dropped"
    /\ rx_q' = <<>>
    /\ UNCHANGED <<thread_q, recvd, mark>>
    /\ CallerFrame

----------------------------------------------------------------------------
(* Specification *)

Next ==
    \/ WatcherNew
    \/ WatchFirst
    \/ WatchSecond
    \/ LoaderCreate
    \/ Spawn
    \/ FsWrite
    \/ FsRemove
    \/ FsOther
    \/ ThreadCheck
    \/ ThreadWait
    \/ ThreadReload
    \/ Recv
    \/ ReplaceRx
    \/ DropSend
    \/ DropJoin
    \/ DropFields

Spec == Init /\ [][Next]_vars

\* The program together with external steps that may panic in the thread.
PanicNext == Next \/ ThreadPanic

PanicSpec == Init /\ [][PanicNext]_vars

\* Sessions constructed on sources that compile; later edits still make them
\* missing, invalid or valid again.
FairInit == Init /\ content[Edited(src_path)] = "ok"

\* A step of create_watch on the constructing thread.
ConstructStep == WatcherNew \/ WatchFirst \/ WatchSecond \/ LoaderCreate \/ Spawn

\* A step of the background thread.
ThreadStep == ThreadCheck \/ ThreadWait \/ ThreadReload

\* A step of a drop that has sent its signal.
DropStep == DropJoin \/ DropFields

\* The operating system schedules the constructing thread, the background
\* thread and the thread that runs drop: create_watch runs to its return, the
\* event wait returns within one second, a started drop runs to its end.
FairSpec ==
    /\ FairInit
    /\ [][Next]_vars
    /\ WF_vars(ConstructStep)
    /\ WF_vars(ThreadStep)
    /\ WF_vars(DropStep)

\* Session Lifecycle State of spec section 3, read off the program state.
Lifecycle ==
    IF cpc \in Failed THEN "NoSession"
    ELSE IF cpc # "ready" THEN "Starting"
    ELSE IF dpc = "alive" THEN "Watching"
    ELSE IF dpc = "joining" THEN "ShuttingDown"
    ELSE "Stopped"

\* Ids of the Create/Write events delivered by the monitor for which the
\* thread has not yet finished a reload: those in the event stream and the
\* one the thread has taken and is about to reload for.
Unreloaded ==
    {notify_q[i].id : i \in {j \in 1..Len(notify_q) :
                               notify_q[j].kind \in {"Create", "Write"}}}
        \cup (IF tpc = "reload" THEN {last_wait.id} ELSE {})

\* Origins of the results observable on the result channel, in channel order.
Observed == recvd \o [i \in 1..Len(rx_q) |-> rx_q[i].origin]

----------------------------------------------------------------------------
(* Properties *)

\* C1: for every successful construction the first value observable on the
\* result channel is the result of the initial reload; it is enqueued before
\* the background thread exists, so no event-triggered result precedes it.
C1_InitialResultFirst ==
    /\ Len(Observed) > 0 => Observed[1] = 0
    /\ tpc # "none" =>
         /\ Len(log) > 0
         /\ log[1].trigger = "Initial"
         /\ log[1].delivered
    /\ (cpc = "ready" /\ dpc = "alive" /\ rx = "alive") => Len(Observed) > 0

\* C1 witness: the caller has received the initial result and then the
\* result of a reload triggered by an event.
C1_Witness ==
    /\ Len(recvd) >= 2
    /\ recvd[1] = 0
    /\ recvd[2] > 0

\* C2 (as claimed): once drop has sent the shutdown signal the background
\* thread calls reload() no more and enqueues no further result.
C2_NoReloadAfterShutdown ==
    dpc # "alive" => Len(log) = mark

\* C3: dropping the handle of a running session always terminates it: once
\* the shutdown signal is sent, the thread exits and the join completes.
C3_DropTerminates ==
    (dpc = "joining") ~> (Lifecycle = "Stopped" /\ tpc = "exited")

\* C3 witness: the join has completed although events were still queued and
\* the thread had reloaded on an event before.
C3_Witness ==
    /\ dpc = "joined"
    /\ tpc = "exited"
    /\ Len(notify_q) > 0
    /\ Len(log) > 1

\* C4: when the monitor cannot be created or a directory watch cannot be
\* installed, construction returns Error::FileWatch and no session exists:
\* no thread, no reload attempted, no result channel content, no watch left.
C4_FileWatchFailure ==
    cpc \in Failed =>
        /\ tpc = "none"
        /\ Len(log) = 0
        /\ rx = "none"
        /\ rx_q = <<>>
        /\ watches = <<>>
        /\ watcher # "alive"
        /\ Lifecycle = "NoSession"

\* C4 witness: the watch of the second directory of a pair failed after the
\* first one had been installed, and the watcher has been released.
C4_Witness ==
    /\ cpc = "failed_watch2"
    /\ watcher = "dropped"
    /\ watches = <<>>

\* C5 (as claimed): when the initial load fails with its file-read error,
\* construction returns an error and no session is created.
C5_MissingFileFailsConstruction ==
    (Len(log) > 0 /\ log[1].result = Err("FileRead")) =>
        (cpc # "ready" /\ tpc = "none")

\* C5 (amended): when the directories can be watched and a watched file does
\* not exist, the initial load fails with its file-read error, that Err is
\* enqueued as the first result, and construction goes on to spawn the
\* thread and return the session.
C5_MissingFileYieldsErrResult ==
    /\ [](Len(log) > 0 /\ log[1].result = Err("FileRead") =>
            /\ cpc \in {"spawn", "ready"}
            /\ log[1].delivered
            /\ cpc = "ready" => tpc # "none")
    /\ [][(cpc = "loader" /\ cpc' # "loader"
             /\ content[Edited(src_path)] = "missing") =>
            /\ cpc' = "spawn"
            /\ rx' = "alive"
            /\ rx_q' = <<[origin |-> 0, result |-> Err("FileRead")]>>]_vars

\* C5 witness: a session whose initial result is the file-read error is
\* running, its background thread waiting for events.
C5_Witness ==
    /\ cpc = "ready"
    /\ Lifecycle = "Watching"
    /\ tpc = "wait"
    /\ Len(log) > 0
    /\ log[1].result = Err("FileRead")
    /\ Len(rx_q) > 0
    /\ rx_q[1].result = Err("FileRead")

\* C6: a reload that fails enqueues an Err result and leaves the session as
\* it was with the thread back at the top of its loop; the thread leaves the
\* loop only after a shutdown signal, so later events still reload.
C6_FailedReloadKeepsSession ==
    /\ [](tpc = "exited" => dpc # "alive")
    /\ [][(tpc = "reload" /\ Len(log') = Len(log) + 1
             /\ ~log'[Len(log')].result.ok) =>
            /\ tpc' = "check"
            /\ cpc' = cpc
            /\ dpc' = dpc
            /\ rx = "alive" =>
                 /\ Len(rx_q') = Len(rx_q) + 1
                 /\ ~rx_q'[Len(rx_q')].result.ok]_vars

\* C6 witness: still Watching, an event-triggered reload failed and a later
\* event-triggered reload succeeded, both results enqueued in that order.
C6_Witness ==
    /\ Lifecycle = "Watching"
    /\ Len(rx_q) = 3
    /\ rx_q[2].origin > 0
    /\ ~rx_q[2].result.ok
    /\ rx_q[3].result.ok

\* C7: only Create and Write trigger a reload; after any other outcome of the
\* event wait the thread goes back to the top of the loop having reloaded
\* nothing and enqueued nothing.
C7_OnlyCreateWriteTrigger ==
    /\ [](\A i \in 1..Len(log) : log[i].trigger \in {"Initial", "Create", "Write"})
    /\ [][(tpc = "wait" /\ tpc' # "wait"
             /\ last_wait'.kind \notin {"Create", "Write"}) =>
            /\ tpc' = "check"
            /\ log' = log
            /\ rx_q' = rx_q]_vars

\* C7 witness: the thread has taken a Remove, Rename, Chmod or Error event
\* and is back at the top of its loop with only the initial reload done.
C7_Witness ==
    /\ tpc = "check"
    /\ last_wait.kind \in {"Remove", "Rename", "Chmod", "Error"}
    /\ Len(log) = 1

\* C8: while the receiver is alive, the number of results enqueued so far is
\* one (the initial reload) plus the number of Create/Write events whose
\* reload has completed; the number of reload() calls is the same.
C8_OneResultPerReload ==
    LET completed == Len(consumed) - (IF tpc = "reload" THEN 1 ELSE 0) IN
    /\ cpc \in {"spawn", "ready"} => Len(log) = 1 + completed
    /\ (cpc \in {"spawn", "ready"} /\ rx = "alive") =>
           Len(recvd) + Len(rx_q) = 1 + completed

\* C8 witness: two Create/Write events have been reloaded and three results
\* are waiting in the channel.
C8_Witness ==
    /\ rx = "alive"
    /\ tpc = "check"
    /\ Len(consumed) = 2
    /\ Len(rx_q) = 3
    /\ \E i \in 2..3 : log[i].trigger = "Create"

\* C9: every reload() sends exactly the outcome of the two external steps:
\* the load error without calling parse, or the parse error without the
\* artifact, or Ok with that load's artifact and that parse's entry.
C9_ReloadOutcome ==
    [][Len(log') = Len(log) + 1 =>
         LET e == log'[Len(log')]
             l == IF src_path.kind = "Graphics"
                  THEN load(content) ELSE load_compute(content)
             p == IF src_path.kind = "Graphics"
                  THEN parse(l.shaders) ELSE parse_compute(l.shaders)
         IN /\ ~l.ok => (e.result = Err(l.err) /\ ~e.parseCalled)
            /\ (l.ok /\ ~p.ok) => (e.parseCalled /\ e.result = Err(p.err))
            /\ (l.ok /\ p.ok) => (e.parseCalled /\ e.result = Ok(l.shaders, p.entry))
            /\ rx' = "alive" =>
                 rx_q' = Append(rx_q, [origin |-> e.origin, result |-> e.result])
            /\ rx' # "alive" => rx_q' = rx_q]_vars

\* C9 witness: a graphics session has seen a load error, a parse error and a
\* success.
C9_Witness ==
    /\ src_path.kind = "Graphics"
    /\ Len(log) = 3
    /\ log[1].result = Err("FileRead") /\ ~log[1].parseCalled
    /\ log[2].result = Err("Parse") /\ log[2].parseCalled
    /\ log[3].result.ok /\ log[3].result.entry = "entry_graphics"

\* C10: event-triggered results appear on the result channel in the order in
\* which the thread took their Create/Write events from the event stream.
C10_ResultsInEventOrder ==
    /\ \A i \in 2..Len(Observed) :
         /\ i - 1 <= Len(consumed)
         /\ Observed[i] = consumed[i - 1]
    /\ \A i \in 2..Len(log) :
         /\ i - 1 <= Len(consumed)
         /\ log[i].origin = consumed[i - 1]
    /\ \A i \in 1..(Len(consumed) - 1) : consumed[i] < consumed[i + 1]
    /\ rx = "alive" => Len(Observed) = Len(log)

\* C10 witness: the caller has received the initial result and the results
\* of two events, in the order the events were taken.
C10_Witness ==
    /\ Len(recvd) = 3
    /\ Len(consumed) = 2
    /\ recvd[2] = consumed[1]
    /\ recvd[3] = consumed[2]

\* C11: once the watches are installed they are the deduplicated parent
\* directories of the target: one subscription for a pair sharing a parent,
\* two for a pair with different parents, one for a compute source, and no
\* directory subscribed twice.
C11_WatchSetDeduplicated ==
    (cpc \in {"loader", "spawn", "ready"} /\ watcher = "alive") =>
        /\ Watched = IF src_path.kind = "Graphics"
                     THEN {src_path.vdir, src_path.fdir} ELSE {src_path.vdir}
        /\ Len(watches) = Cardinality(Watched)
        /\ Len(watches) = IF src_path.kind = "Graphics" /\ src_path.vdir # src_path.fdir
                          THEN 2 ELSE 1

\* C11 witness: a running graphics session whose two files share a parent
\* holds exactly one subscription.
C11_Witness ==
    /\ cpc = "ready"
    /\ watcher = "alive"
    /\ src_path.kind = "Graphics"
    /\ src_path.vdir = src_path.fdir
    /\ watches = <<src_path.vdir>>

\* C12: with the receiver of the result channel dropped, reload() returns
\* with its failed send ignored, the thread goes back to the top of its loop,
\* goes on taking events from the event stream, and still exits once the
\* shutdown signal is sent.
C12_DroppedReceiverHarmless ==
    /\ [][(rx = "dropped" /\ tpc = "reload" /\ tpc' # "reload") =>
            /\ tpc' = "check"
            /\ rx_q' = rx_q
            /\ Len(log') = Len(log) + 1
            /\ ~log'[Len(log')].delivered]_vars
    /\ [][(rx = "dropped" /\ tpc = "wait" /\ tpc' # "wait" /\ Len(notify_q) > 0) =>
            /\ notify_q' = Tail(notify_q)
            /\ last_wait' = Head(notify_q)]_vars
    /\ (rx = "dropped" /\ dpc = "joining") ~> (tpc = "exited" /\ dpc # "joining")

\* C12 witness: the receiver was dropped, a later reload ran with its send
\* failing, another event was taken afterwards, and the drop of the handle
\* has joined the thread.
C12_Witness ==
    /\ rx = "dropped"
    /\ dpc = "joined"
    /\ tpc = "exited"
    /\ \E i \in 1..Len(log) :
         /\ ~log[i].delivered
         /\ last_wait.id > log[i].origin

\* C13: with a caller that never receives, every reload enqueues its result
\* (the queue holds one result per reload made, none dropped), the thread
\* returns to its loop after each, and the drop of the handle still completes.
C13_NoBackpressure ==
    /\ []((rx = "alive" /\ Len(recvd) = 0) => Len(rx_q) = Len(log))
    /\ [][(rx = "alive" /\ tpc = "reload" /\ tpc' # "reload") =>
            /\ tpc' = "check"
            /\ Len(rx_q') = Len(rx_q) + 1]_vars
    /\ (dpc = "joining" /\ rx = "alive" /\ Len(recvd) = 0) ~> (Lifecycle = "Stopped")

\* C13 witness: nothing was ever received, the initial result and the
\* results of two events are queued, and the join has completed.
C13_Witness ==
    /\ rx = "alive"
    /\ Len(recvd) = 0
    /\ Len(rx_q) = 3
    /\ dpc = "joined"
    /\ tpc = "exited"

\* C14: a successful construction installs every directory watch, then runs
\* exactly one initial reload on the constructing thread and enqueues its
\* result, then spawns the background thread; the thread does not exist
\* before that result is enqueued and never runs the initial reload.
C14_ConstructionOrder ==
    /\ [](\A i \in 1..Len(log) : (log[i].trigger = "Initial") <=> (i = 1))
    /\ [](tpc # "none" => (cpc = "ready" /\ Len(log) >= 1))
    /\ [](cpc \in {"new", "watch1", "watch2", "loader"} =>
            (Len(log) = 0 /\ rx_q = <<>> /\ tpc = "none"))
    /\ [][(Len(log) = 0 /\ Len(log') = 1) =>
            /\ cpc = "loader"
            /\ cpc' = "spawn"
            /\ tpc = "none" /\ tpc' = "none"
            /\ Watched = {src_path.vdir, src_path.fdir}
            /\ watches' = watches
            /\ rx_q' = <<[origin |-> 0, result |-> log'[1].result]>>]_vars
    /\ [][(tpc = "none" /\ tpc' # "none") =>
            /\ cpc = "spawn"
            /\ Len(log) = 1
            /\ Len(rx_q) = 1
            /\ tpc' = "check"]_vars

\* C14 witness: a pair with two parents has been constructed: both watches
\* are installed, the one initial result is queued, the thread is running.
C14_Witness ==
    /\ cpc = "ready"
    /\ Len(watches) = 2
    /\ Len(log) = 1
    /\ Len(rx_q) = 1
    /\ rx_q[1].origin = 0
    /\ tpc = "wait"

\* C15: a Create/Write event the monitor has delivered stays in the event
\* stream until the background thread takes it (only a failed construction
\* discards the stream), also while the initial reload runs and before the
\* thread is spawned; the thread reloads for the event it took; and unless
\* the handle is dropped, every delivered Create/Write event is eventually
\* taken and reloaded.
C15_NoEventMissed ==
    /\ [][\A i \in 1..Len(notify_q) :
            notify_q[i].kind \in {"Create", "Write"} =>
                \/ \E j \in 1..Len(notify_q') : notify_q'[j] = notify_q[i]
                \/ /\ i = 1
                   /\ tpc = "wait"
                   /\ tpc' = "reload"
                   /\ last_wait' = notify_q[i]
                \/ cpc' \in Failed]_vars
    /\ [][(tpc = "reload" /\ tpc' # "reload") =>
            /\ Len(log') = Len(log) + 1
            /\ log'[Len(log')].origin = last_wait.id]_vars
    /\ (Unreloaded # {}) ~> (Unreloaded = {} \/ dpc # "alive" \/ cpc \in Failed)

\* C15 witness: the first filesystem operation happened after the watches
\* were installed and before the initial reload (which already saw the
\* edited, non-compiling source), and the thread, spawned later, has
\* reloaded for its event.
C15_Witness ==
    /\ Len(log) >= 2
    /\ log[1].result = Err("Compile")
    /\ log[2].origin = 1
    /\ log[2].trigger = "Write"
    /\ dpc = "alive"

\* C16: after the shutdown signal has been sent the thread finishes at most
\* the event wait it is in, and so at most one more reload; the signal stays
\* queued until the first loop-top check that follows it, and that check
\* leaves the loop, however many events are queued.
C16_BoundedShutdownLatency ==
    /\ [](dpc # "alive" => Len(log) <= mark + 1)
    /\ []((dpc # "alive" /\ tpc # "exited") => thread_q = 1)
    /\ [][(dpc # "alive" /\ tpc = "check" /\ tpc' # "check") => tpc' = "exited"]_vars
    /\ [][(dpc # "alive" /\ tpc' = "wait") => tpc = "wait"]_vars

\* C16 witness: the thread has exited and been joined after exactly one
\* reload that followed the signal, leaving an event in the stream.
C16_Witness ==
    /\ dpc = "joined"
    /\ tpc = "exited"
    /\ Len(log) = mark + 1
    /\ Len(notify_q) > 0

\* C17: the watcher, and with it the sending side of the event stream, is
\* released only after the join of the background thread has completed: it
\* is alive in every state in which the thread runs or waits.
C17_WatcherOutlivesThread ==
    /\ tpc \in {"check", "wait", "reload"} => watcher = "alive"
    /\ (cpc = "ready" /\ watcher = "dropped") => (tpc = "exited" /\ dpc = "dropped")
    /\ dpc \in {"alive", "joining", "joined"} /\ cpc = "ready" => watcher = "alive"

\* C17 witness: the teardown has finished: the thread was joined first, the
\* watcher and its subscriptions are released.
C17_Witness ==
    /\ cpc = "ready"
    /\ dpc = "dropped"
    /\ tpc = "exited"
    /\ watcher = "dropped"
    /\ watches = <<>>

\* C18: when the background thread has already ended before the handle is
\* dropped, the send of the shutdown signal fails and is ignored, the join
\* returns at once with its error ignored, and the drop goes on to Stopped.
C18_TeardownNeverFails ==
    /\ [][(dpc = "alive" /\ dpc' # "alive" /\ tpc = "panicked") =>
            /\ dpc' = "joining"
            /\ thread_q' = thread_q
            /\ tpc' = tpc]_vars
    /\ [][(dpc = "joining" /\ dpc' # "joining") =>
            (dpc' = "joined" /\ Lifecycle' = "Stopped")]_vars
    /\ []((dpc = "joining" /\ tpc = "panicked") => ENABLED DropJoin)
    /\ [](dpc = "joined" => ENABLED DropFields)

\* C18 witness: the thread had ended by a panic before the drop (the signal
\* was never queued), and the drop has run to its end, the watcher released.
C18_Witness ==
    /\ tpc = "panicked"
    /\ thread_q = 0
    /\ dpc = "dropped"
    /\ watcher = "dropped"
    /\ Lifecycle = "Stopped"

\* C19: the lifecycle only moves forward, Starting -> Watching ->
\* ShuttingDown -> Stopped (or Starting -> no session when construction
\* fails); the thread is spawned once; while Watching the thread is in its
\* loop, so only the drop of the handle ends Watching; Stopped is entered
\* only with the signal taken by the thread and the thread joined.
C19_LifecycleForward ==
    /\ [][Lifecycle' # Lifecycle =>
            <<Lifecycle, Lifecycle'>> \in
                { <<"Starting", "Watching">>, <<"Starting", "NoSession">>,
                  <<"Watching", "ShuttingDown">>, <<"ShuttingDown", "Stopped">> }]_vars
    /\ [][(Lifecycle = "Starting" /\ Lifecycle' = "Watching") =>
            (tpc = "none" /\ tpc' = "check")]_vars
    /\ [][tpc # "none" => tpc' # "none"]_vars
    /\ [][(Lifecycle = "Watching" /\ Lifecycle' = "ShuttingDown") =>
            (thread_q' = thread_q + 1 /\ tpc' = tpc)]_vars
    /\ [](Lifecycle = "Starting" => tpc = "none")
    /\ [](Lifecycle = "Watching" => tpc \in {"check", "wait", "reload"})
    /\ [](Lifecycle = "Stopped" => (tpc = "exited" /\ thread_q = 0))

\* C19 witness: a session whose reload for an event failed while it was
\* Watching has gone through ShuttingDown to Stopped.
C19_Witness ==
    /\ Lifecycle = "Stopped"
    /\ dpc = "joined"
    /\ mark >= 2
    /\ ~log[2].result.ok
    /\ tpc = "exited"

\* C20: whether the thread reloads depends on the kind of the event alone: a
\* Create or Write event for any path, a file that is none of the watched
\* sources included, leads to one reload() of the target and one result.
C20_TriggerIgnoresPath ==
    /\ [][(tpc = "wait" /\ tpc' # "wait" /\ Len(notify_q) > 0
             /\ Head(notify_q).kind \in {"Create", "Write"}) =>
            /\ tpc' = "reload"
            /\ last_wait' = Head(notify_q)]_vars
    /\ [][(tpc = "reload" /\ tpc' # "reload") =>
            /\ Len(log') = Len(log) + 1
            /\ log'[Len(log')].origin = last_wait.id
            /\ log'[Len(log')].result = Loader_reload(src_path, content).result
            /\ rx = "alive" => Len(rx_q') = Len(rx_q) + 1]_vars
    /\ [](tpc = "reload" => last_wait.kind \in {"Create", "Write"})

\* C20 witness: the thread has taken a Write event for an unrelated file of
\* the watched directory, reloaded the target and enqueued the result.
C20_Witness ==
    /\ tpc = "check"
    /\ last_wait.kind = "Write"
    /\ last_wait.path = "other"
    /\ Len(log) = 2
    /\ log[2].origin = last_wait.id
    /\ Len(rx_q) = 2
    /\ rx_q[2].origin = last_wait.id

====
